---- MODULE Spec2Model ----
(***************************************************************************)
(* Model of the request-dispatch engine of dos.py: StressTester.run fans   *)
(* out total_requests sem_task coroutines under an asyncio.Semaphore, each *)
(* of which calls the tenacity-wrapped send_request, which performs one    *)
(* transport try and records its outcome under asyncio.Lock.               *)
(*                                                                         *)
(* Spec is the engine of a tester constructed with validate_proxies = False*)
(* and no proxies (the defaults), so run() goes straight to task creation; *)
(* MainSpec is main() as a whole, ConfigSpec its configuration resolution, *)
(* PercentileSpec _percentile.                                             *)
(*                                                                         *)
(* A step of the model is a stretch of a coroutine between two suspension  *)
(* points (await of the semaphore, of the transport, of the lock), which   *)
(* the event loop runs without interleaving.                               *)
(***************************************************************************)
EXTENDS Integers, Sequences, FiniteSets, TLC

\* ---------------------------------------------------------------- bounds
MaxRequests == 3
MaxConcurrency == 2
\* longest latency list given to _percentile on its own
MaxLatencies == 4

\* ------------------------------------------------------ program constants
\* stop_after_attempt(3)
MaxTries == 3
\* wait_exponential(multiplier=1, min=2, max=10)
WaitMultiplier == 1
WaitMin == 2
WaitMax == 10

\* --------------------------------------------------------------- domains
TaskIds == 1..MaxRequests
StatusCodes == {200, 500}
\* time.time() - start_time, in whole time units
Latencies == {1, 2}

\* Exception types the transport can raise out of session.request.
\* ClientConnectorError is a subclass of aiohttp.ClientError; "ClientError"
\* stands for any other aiohttp.ClientError (e.g. ServerDisconnectedError);
\* "OtherException" for an Exception that is no aiohttp.ClientError.
ExceptionTypes == {"TimeoutError", "ClientConnectorError", "ClientError", "OtherException"}

NoOutcome == [exc |-> "pending", status |-> 0, latency |-> 0]
Response(code, lat) == [exc |-> "none", status |-> code, latency |-> lat]
Raised(e) == [exc |-> e, status |-> 0, latency |-> 0]

\* Everything one transport try can end with.
TransportOutcomes ==
    {Response(c, l) : c \in StatusCodes, l \in Latencies} \cup {Raised(e) : e \in ExceptionTypes}

VARIABLES
    total_requests,   \* self.total_requests
    concurrency,      \* self.concurrency
    phase,            \* "Dispatching" | "Reporting" | "Done"
    created,          \* number of tasks appended to `tasks` by the loop of run()
    sem,              \* asyncio.Semaphore value (free slots)
    locked,           \* self.lock is held
    status_codes,     \* self.stats['status_codes']: code -> count, keys as inserted
    errors,           \* self.stats['errors']: description -> count
    latencies,        \* self.latencies, in append order
    pc,               \* position of each sem_task
    tries,            \* transport tries made by each task (tenacity attempt_number)
    result,           \* how the task finished: "pending" | "returned" | "raised"
    history,          \* per task: the sequence of its transport outcomes
    recorded,         \* per task: the outcomes it forwarded to the aggregator
    waits,            \* per task: backoff sleeps taken between tries, in seconds
    report,           \* what report() computed: successful, failed, percentiles
    cli,              \* the command line: per flag, whether given and its value
    conf,             \* `config` of main(): the JSON file's keys ({} without a file)
    resolved,         \* the values main() resolved (<<>> before it did)
    proxies,          \* self.proxies
    validate_proxies, \* self.validate_proxies
    probes,           \* validate_proxies_async: the probe of each candidate
    proxy             \* per task: the proxy its running send_request chose

vars == <<total_requests, concurrency, phase, created, sem, locked, status_codes,
          errors, latencies, pc, tries, result, history, recorded, waits, report,
          cli, conf, resolved, proxies, validate_proxies, probes, proxy>>

\* What main() and the validation set up; the dispatch only reads it.
setup == <<cli, conf, resolved, proxies, validate_proxies, probes>>
config == <<total_requests, concurrency, setup>>
stats == <<status_codes, errors, latencies>>

\* ---------------------------------------------------------------- helpers
\* defaultdict(int)[k] += 1
Increment(d, k) ==
    IF k \in DOMAIN d THEN [d EXCEPT ![k] = @ + 1] ELSE d @@ (k :> 1)

RECURSIVE SumOver(_, _)
SumOver(d, keys) ==
    IF keys = {} THEN 0
    ELSE LET k == CHOOSE x \in keys : TRUE IN d[k] + SumOver(d, keys \ {k})

\* sum(d.values())
SumValues(d) == SumOver(d, DOMAIN d)

Min(a, b) == IF a < b THEN a ELSE b
Max(a, b) == IF a > b THEN a ELSE b

RECURSIVE Pow2(_)
Pow2(n) == IF n <= 0 THEN 1 ELSE 2 * Pow2(n - 1)

\* sorted(s): ascending, by insertion.
RECURSIVE Insert(_, _)
Insert(x, s) ==
    IF s = <<>> THEN <<x>>
    ELSE IF x <= Head(s) THEN <<x>> \o s
    ELSE <<Head(s)>> \o Insert(x, Tail(s))

RECURSIVE Sorted(_)
Sorted(s) == IF s = <<>> THEN <<>> ELSE Insert(Head(s), Sorted(Tail(s)))

\* report() has not run yet.
NoReport == [successful |-> 0, failed |-> 0, percentiles |-> <<>>]

\* str(e) of the exception of each type.
Str(e) ==
    CASE e = "TimeoutError" -> ""
      [] e = "ClientConnectorError" -> "Cannot connect to host"
      [] e = "ClientError" -> "Server disconnected"
      [] OTHER -> "boom"

\* isinstance(e, aiohttp.ClientError)
IsClientError(e) == e \in {"ClientConnectorError", "ClientError"}

\* The local `proxy` of send_request: not running, or what it chose.
NoProxyChosen == "unset"
NoProxy == "None"

\* random.choice(self.proxies) if self.proxies else None
ProxyChoices(pool) ==
    IF pool = <<>> THEN {NoProxy} ELSE {pool[i] : i \in DOMAIN pool}

\* ----------------------------------------------------- send_request body
\* Mutation: the trailing `except Exception` clause is missing.
CatchesNoGeneric(e) ==
    \/ e = "TimeoutError"
    \/ e = "ClientConnectorError"

\* The except clauses of send_request, in order: asyncio.TimeoutError,
\* ClientConnectorError, Exception. TRUE when one of them catches e.
Catches(e) ==
    \/ e = "TimeoutError"
    \/ e = "ClientConnectorError"
    \/ e \in ExceptionTypes

\* Mutation: the timeout is counted under str(e) like the other errors.
ErrorKeyStr(e) == Str(e)

\* The key under which the catching clause counts e in stats['errors'].
ErrorKey(e) ==
    IF e = "TimeoutError" THEN "Timeout" ELSE Str(e)

\* ------------------------------------------------------ tenacity wrapper
\* retry=retry_if_exception_type(aiohttp.ClientError), stop=stop_after_attempt(3)
ShouldRetry(e, attempt) == IsClientError(e) /\ attempt < MaxTries

\* wait_exponential(multiplier=1, min=2, max=10) after the given attempt
WaitExponential(attempt) ==
    Max(Max(0, WaitMin), Min(WaitMultiplier * Pow2(attempt - 1), WaitMax))

\* The current transport outcome of task t (the last one it got).
Outcome(t) == IF history[t] = <<>> THEN NoOutcome ELSE history[t][Len(history[t])]

\* Tasks admitted by the semaphore that have not finished send_request.
InFlightPcs == {"request", "lock_wait", "critical"}
InFlight == {t \in TaskIds : pc[t] \in InFlightPcs}
InCritical == {t \in TaskIds : pc[t] = "critical"}

\* ------------------------------------------------------------------ Init
\* State after StressTester.__init__ and the entry of run().
Init ==
    /\ total_requests \in 0..MaxRequests
    /\ concurrency \in 1..MaxConcurrency
    /\ phase = "Dispatching"
    /\ created = 0
    /\ sem = concurrency
    /\ locked = FALSE
    /\ status_codes = <<>>
    /\ errors = <<>>
    /\ latencies = <<>>
    /\ pc = [t \in TaskIds |-> "none"]
    /\ tries = [t \in TaskIds |-> 0]
    /\ result = [t \in TaskIds |-> "pending"]
    /\ history = [t \in TaskIds |-> <<>>]
    /\ recorded = [t \in TaskIds |-> <<>>]
    /\ waits = [t \in TaskIds |-> <<>>]
    /\ report = NoReport
    /\ cli = <<>>
    /\ conf = <<>>
    /\ resolved = <<>>
    /\ proxies = <<>>
    /\ validate_proxies = FALSE
    /\ probes = <<>>
    /\ proxy = [t \in TaskIds |-> NoProxyChosen]

\* --------------------------------------------------------------- actions
\* run(): one iteration of `for _ in range(self.total_requests)`.
CreateTask ==
    /\ phase = "Dispatching"
    /\ created < total_requests
    /\ created' = created + 1
    /\ pc' = [pc EXCEPT ![created + 1] = "sem_wait"]
    /\ UNCHANGED <<config, proxy, report, phase, sem, locked, stats, tries, result, history, recorded, waits>>

\* Mutation: the semaphore admits without looking at its value.
SemAlwaysFree == TRUE

\* The semaphore admits a task only while it has a free slot.
SemFree == sem > 0

\* sem_task: `async with sem` is entered and send_request starts its first
\* transport try. Tasks only run once run() is suspended in gather.
Admit(t) ==
    /\ phase = "Dispatching"
    /\ created = total_requests
    /\ pc[t] = "sem_wait"
    /\ SemFree
    /\ sem' = sem - 1
    /\ pc' = [pc EXCEPT ![t] = "request"]
    /\ tries' = [tries EXCEPT ![t] = 1]
    /\ \E p \in ProxyChoices(proxies) : proxy' = [proxy EXCEPT ![t] = p]
    /\ UNCHANGED <<config, report, phase, created, locked, stats, result, history, recorded, waits>>

\* Mutation: the semaphore slot is never given back.
UnwindNoRelease(t, e) ==
    /\ result' = [result EXCEPT ![t] = IF e = "none" THEN "returned" ELSE "raised"]
    /\ pc' = [pc EXCEPT ![t] = "done"]
    /\ proxy' = [proxy EXCEPT ![t] = NoProxyChosen]
    /\ UNCHANGED <<sem, waits, tries>>

\* What follows the body of send_request for task t, the body having ended
\* with exception e ("none": returned normally): tenacity either starts
\* another try after a backoff sleep, or lets send_request end; then
\* `async with sem` is left and the task is finished.
Unwind(t, e) ==
    IF e # "none" /\ ShouldRetry(e, tries[t])
    THEN /\ waits' = [waits EXCEPT ![t] = Append(@, WaitExponential(tries[t]))]
         /\ tries' = [tries EXCEPT ![t] = @ + 1]
         /\ pc' = [pc EXCEPT ![t] = "request"]
         /\ \E p \in ProxyChoices(proxies) : proxy' = [proxy EXCEPT ![t] = p]
         /\ UNCHANGED <<sem, result>>
    ELSE /\ result' = [result EXCEPT ![t] = IF e = "none" THEN "returned" ELSE "raised"]
         /\ pc' = [pc EXCEPT ![t] = "done"]
         /\ sem' = sem + 1
         /\ proxy' = [proxy EXCEPT ![t] = NoProxyChosen]
         /\ UNCHANGED <<waits, tries>>

\* The transport try of task t ends with outcome o. A response or a caught
\* exception goes on to the stats lock; an exception no clause catches
\* leaves the body.
TransportEnd(t, o) ==
    /\ pc[t] = "request"
    /\ history' = [history EXCEPT ![t] = Append(@, o)]
    /\ IF o.exc = "none" \/ Catches(o.exc)
       THEN /\ pc' = [pc EXCEPT ![t] = "lock_wait"]
            /\ UNCHANGED <<sem, result, waits, tries, proxy>>
       ELSE Unwind(t, o.exc)
    /\ UNCHANGED <<config, report, phase, created, locked, stats, recorded>>

\* Mutation: the lock is granted whether or not it is held.
LockAlwaysFree == TRUE

\* The lock is granted only while nobody holds it.
LockFree == ~locked

\* `async with self.lock` is entered.
AcquireLock(t) ==
    /\ pc[t] = "lock_wait"
    /\ LockFree
    /\ locked' = TRUE
    /\ pc' = [pc EXCEPT ![t] = "critical"]
    /\ UNCHANGED <<config, proxy, report, phase, created, sem, stats, tries, result, history, recorded, waits>>

\* Mutation: a response with status >= 400 is counted as an error.
RecordStatsHttpErrors(o) ==
    IF o.exc = "none" /\ o.status < 400
    THEN /\ latencies' = Append(latencies, o.latency)
         /\ status_codes' = Increment(status_codes, o.status)
         /\ UNCHANGED errors
    ELSE /\ errors' = Increment(errors, IF o.exc = "none" THEN "HTTP error" ELSE ErrorKey(o.exc))
         /\ UNCHANGED <<latencies, status_codes>>

\* Mutation: the latency is appended for a failed try as well.
RecordStatsLatencyAlways(o) ==
    IF o.exc = "none"
    THEN /\ latencies' = Append(latencies, o.latency)
         /\ status_codes' = Increment(status_codes, o.status)
         /\ UNCHANGED errors
    ELSE /\ latencies' = Append(latencies, o.latency)
         /\ errors' = Increment(errors, ErrorKey(o.exc))
         /\ UNCHANGED status_codes

\* The statements under the lock, for the outcome o of the try.
RecordStats(o) ==
    IF o.exc = "none"
    THEN /\ latencies' = Append(latencies, o.latency)
         /\ status_codes' = Increment(status_codes, o.status)
         /\ UNCHANGED errors
    ELSE /\ errors' = Increment(errors, ErrorKey(o.exc))
         /\ UNCHANGED <<latencies, status_codes>>

\* The critical section of task t: the update, the release of the lock,
\* and the return from send_request and sem_task.
Record(t) ==
    /\ pc[t] = "critical"
    /\ RecordStats(Outcome(t))
    /\ locked' = FALSE
    /\ recorded' = [recorded EXCEPT ![t] = Append(@, Outcome(t))]
    /\ Unwind(t, "none")
    /\ UNCHANGED <<config, report, phase, created, history>>

\* Mutation: the wait ends as soon as one task has finished.
GatherFirstCompleted ==
    /\ phase = "Dispatching"
    /\ created = total_requests
    /\ \E t \in 1..total_requests : pc[t] = "done"
    /\ phase' = "Reporting"
    /\ UNCHANGED <<config, proxy, report, created, sem, locked, stats, pc, tries, result, history, recorded, waits>>

\* run(): gather(*tasks, return_exceptions=True) returns once every task
\* is finished, whether it returned or raised; asyncio.run returns.
Gather ==
    /\ phase = "Dispatching"
    /\ created = total_requests
    /\ \A t \in 1..total_requests : pc[t] = "done"
    /\ phase' = "Reporting"
    /\ UNCHANGED <<config, proxy, report, created, sem, locked, stats, pc, tries, result, history, recorded, waits>>

\* Mutation: the percentile is read from the list as recorded, unsorted.
PercentileUnsorted(lat, p) ==
    IF lat = <<>> THEN 0
    ELSE LET index == (Len(lat) * p) \div 100
         IN IF index < Len(lat) THEN lat[index + 1] ELSE lat[Len(lat)]

\* _percentile(percentile) on the latency list lat: int() truncates the
\* non-negative quotient; Python indexes from 0, sequences here from 1.
Percentile(lat, p) ==
    IF lat = <<>> THEN 0
    ELSE LET sorted_latencies == Sorted(lat)
             index == (Len(sorted_latencies) * p) \div 100
         IN IF index < Len(sorted_latencies)
            THEN sorted_latencies[index + 1]
            ELSE sorted_latencies[Len(sorted_latencies)]

\* The figures report() derives from the statistics.
ReportOf(total, codes, lat) ==
    LET successful == SumValues(codes)
    IN [successful |-> successful,
        failed |-> total - successful,
        percentiles |-> IF lat # <<>>
                        THEN [q \in {50, 90, 99} |-> Percentile(lat, q)]
                        ELSE <<>>]

\* main(): tester.report(...) has read the statistics.
Report ==
    /\ phase = "Reporting"
    /\ phase' = "Done"
    /\ report' = ReportOf(total_requests, status_codes, latencies)
    /\ UNCHANGED <<config, proxy, created, sem, locked, stats, pc, tries, result, history, recorded, waits>>

Next ==
    \/ CreateTask
    \/ \E t \in TaskIds : Admit(t)
    \/ \E t \in TaskIds : \E o \in TransportOutcomes : TransportEnd(t, o)
    \/ \E t \in TaskIds : AcquireLock(t)
    \/ \E t \in TaskIds : Record(t)
    \/ Gather
    \/ Report

Spec == Init /\ [][Next]_vars

\* Fair scheduling: while a coroutine is ready to run or a transport try is
\* outstanding, the event loop eventually runs a step (every try ends, by
\* response, error or the request timeout). No step can be repeated
\* forever, so this is all the fairness termination needs.
FairSpec == Spec /\ WF_vars(Next)

\* ------------------------------------------------- _percentile on its own
\* _percentile reads nothing but self.latencies: a tester whose latency
\* list is any list of up to MaxLatencies values, and calls of
\* _percentile(p) for every p of 0..100.
LatencyValues == {1, 2, 3}
Percents == 0..100
LatencyLists == UNION {[1..n -> LatencyValues] : n \in 0..MaxLatencies}

InitPercentile ==
    /\ total_requests = 0
    /\ concurrency = 1
    /\ phase = "Reporting"
    /\ created = 0
    /\ sem = concurrency
    /\ locked = FALSE
    /\ status_codes = <<>>
    /\ errors = <<>>
    /\ latencies \in LatencyLists
    /\ pc = [t \in TaskIds |-> "none"]
    /\ tries = [t \in TaskIds |-> 0]
    /\ result = [t \in TaskIds |-> "pending"]
    /\ history = [t \in TaskIds |-> <<>>]
    /\ recorded = [t \in TaskIds |-> <<>>]
    /\ waits = [t \in TaskIds |-> <<>>]
    /\ report = NoReport
    /\ cli = <<>>
    /\ conf = <<>>
    /\ resolved = <<>>
    /\ proxies = <<>>
    /\ validate_proxies = FALSE
    /\ probes = <<>>
    /\ proxy = [t \in TaskIds |-> NoProxyChosen]

\* One call self._percentile(p); sorted() works on a copy.
CallPercentile(p) ==
    /\ report' = [report EXCEPT !.percentiles = (p :> Percentile(latencies, p))]
    /\ UNCHANGED <<config, proxy, phase, created, sem, locked, stats, pc, tries, result, history, recorded, waits>>

NextPercentile == \E p \in Percents : CallPercentile(p)

PercentileSpec == InitPercentile /\ [][NextPercentile]_vars

\* ------------------------------------------- main(): configuration resolution
ConfigKeys ==
    {"url", "threads", "requests", "timeout", "method", "data", "proxies",
     "log_file", "validate_proxies"}

\* Python's None where a string is expected (config.get("url") without the key).
NoneValue == "<None>"

\* The falsy value of the type of key k: 0, "", [] or False.
Falsy(k) ==
    CASE k \in {"threads", "requests", "timeout"} -> 0
      [] k = "proxies" -> <<>>
      [] k = "validate_proxies" -> FALSE
      [] OTHER -> ""

\* bool(v) for a value v of key k.
Truthy(k, v) == v # Falsy(k) /\ (k = "url" => v # NoneValue)

\* A flag of the command line or a key of the file: given or not.
Given(v) == [given |-> TRUE, value |-> v]
NotGiven(k) == [given |-> FALSE, value |-> Falsy(k)]

\* The default= of each add_argument of parse_args; the positional url has
\* none, and store_true defaults to False.
ArgDefault(k) ==
    CASE k = "threads" -> 100
      [] k = "requests" -> 1000
      [] k = "timeout" -> 5
      [] k = "method" -> "GET"
      [] k = "data" -> ""
      [] k = "proxies" -> <<>>
      [] k = "log_file" -> "stress_test.log"
      [] k = "validate_proxies" -> FALSE
      [] OTHER -> NoneValue

\* parse_args(): the Namespace for the command line c (url given).
ParseArgs(c) ==
    [k \in ConfigKeys |->
        IF ~c[k].given THEN ArgDefault(k)
        ELSE IF k = "validate_proxies" THEN TRUE
        ELSE c[k].value]

\* The default each config.get(key, default) of main() passes.
GetDefault(k) ==
    CASE k = "threads" -> 100
      [] k = "requests" -> 1000
      [] k = "timeout" -> 5
      [] k = "method" -> "GET"
      [] k = "data" -> ""
      [] k = "proxies" -> <<>>
      [] k = "log_file" -> "stress_test.log"
      [] k = "validate_proxies" -> FALSE
      [] OTHER -> NoneValue

\* config.get(k, default)
ConfigGet(cf, k) == IF cf[k].given THEN cf[k].value ELSE GetDefault(k)

\* args.<k> or config.get("<k>", default)
ResolveKey(c, cf, k) ==
    IF Truthy(k, ParseArgs(c)[k]) THEN ParseArgs(c)[k] ELSE ConfigGet(cf, k)

\* Mutation: the check of the url is missing.
UrlMissingNever(r) == FALSE

\* `if not url`
UrlMissing(r) == ~Truthy("url", r["url"])

\* main() up to the check of the url: parse_args exits when the positional
\* url is absent; otherwise every key is resolved, and main returns when
\* the url is missing.
MainResolve ==
    /\ phase = "Idle"
    /\ resolved = <<>>
    /\ IF ~cli["url"].given
       THEN /\ phase' = "Aborted"
            /\ UNCHANGED resolved
       ELSE /\ resolved' = [k \in ConfigKeys |-> ResolveKey(cli, conf, k)]
            /\ phase' = IF UrlMissing(resolved') THEN "Aborted" ELSE "Idle"
    /\ UNCHANGED <<total_requests, concurrency, cli, conf, proxies, validate_proxies, probes,
                   created, sem, locked, stats, pc, tries, result, history, recorded, waits,
                   report, proxy>>

\* The process before main() runs: no tester yet.
InitIdle ==
    /\ total_requests = 0
    /\ concurrency = 0
    /\ phase = "Idle"
    /\ created = 0
    /\ sem = 0
    /\ locked = FALSE
    /\ status_codes = <<>>
    /\ errors = <<>>
    /\ latencies = <<>>
    /\ pc = [t \in TaskIds |-> "none"]
    /\ tries = [t \in TaskIds |-> 0]
    /\ result = [t \in TaskIds |-> "pending"]
    /\ history = [t \in TaskIds |-> <<>>]
    /\ recorded = [t \in TaskIds |-> <<>>]
    /\ waits = [t \in TaskIds |-> <<>>]
    /\ report = NoReport
    /\ resolved = <<>>
    /\ proxies = <<>>
    /\ validate_proxies = FALSE
    /\ probes = <<>>
    /\ proxy = [t \in TaskIds |-> NoProxyChosen]

TargetUrl == "http://target"

\* The command line `dos.py http://target` and no configuration file.
PlainCli == [k \in ConfigKeys |-> IF k = "url" THEN Given(TargetUrl) ELSE NotGiven(k)]
NoFile == [k \in ConfigKeys |-> NotGiven(k)]

\* The values tried for key k on the command line and in the file.
CliValues(k) ==
    CASE k \in {"threads", "requests"} -> {0, 1, 2}
      [] k = "timeout" -> {0, 3}
      [] k = "method" -> {"GET", "POST"}
      [] k = "data" -> {"", "a=1"}
      [] k = "proxies" -> {<<>>, <<"p1">>}
      [] k = "log_file" -> {"", "run.log"}
      [] k = "validate_proxies" -> {TRUE}
      [] OTHER -> {"", TargetUrl}

FileValues(k) ==
    CASE k \in {"threads", "requests"} -> {0, 1, 2}
      [] k = "timeout" -> {0, 3}
      [] k = "method" -> {"GET", "POST"}
      [] k = "data" -> {"", "a=1"}
      [] k = "proxies" -> {<<>>, <<"p1">>}
      [] k = "log_file" -> {"", "run.log"}
      [] k = "validate_proxies" -> {TRUE, FALSE}
      [] OTHER -> {"", "http://from-file"}

Settings(k, values) == {NotGiven(k)} \cup {Given(v) : v \in values}

\* The resolution on its own: every way of giving or not giving one key on
\* the command line and in the file, the other keys left out.
InitConfig ==
    /\ InitIdle
    /\ \E k \in ConfigKeys :
          /\ \E c \in Settings(k, CliValues(k)) : cli = [PlainCli EXCEPT ![k] = c]
          /\ \E f \in Settings(k, FileValues(k)) : conf = [NoFile EXCEPT ![k] = f]

ConfigSpec == InitConfig /\ [][MainResolve]_vars

\* ------------------------------------------------ main(): the run as a whole
\* What one probe of validate_proxy can end with: a response (its latency
\* is not measured) or an exception.
ProbeOutcomes ==
    {Response(c, 0) : c \in StatusCodes}
        \cup {Raised("TimeoutError"), Raised("ClientConnectorError")}

\* Mutation: any response makes the proxy valid.
ValidateProxyAnyStatus(o) == o.exc = "none"

\* validate_proxy: True for a response with status 200; False for another
\* status and for any exception.
ValidateProxy(o) == o.exc = "none" /\ o.status = 200

\* The loop over zip(self.proxies, results) of validate_proxies_async.
RECURSIVE ValidProxies(_, _)
ValidProxies(candidates, outcomes) ==
    IF candidates = <<>> THEN <<>>
    ELSE (IF ValidateProxy(Head(outcomes)) THEN <<Head(candidates)>> ELSE <<>>)
            \o ValidProxies(Tail(candidates), Tail(outcomes))

\* main() from setup_logging on: the tester is constructed and run()
\* starts; with validation requested and candidates given it starts one
\* probe per candidate and waits in gather, otherwise it goes on to create
\* the semaphore and the tasks.
MainStart ==
    /\ phase = "Idle"
    /\ resolved # <<>>
    /\ total_requests' = resolved["threads"] * resolved["requests"]
    /\ concurrency' = resolved["threads"]
    /\ proxies' = resolved["proxies"]
    /\ validate_proxies' = resolved["validate_proxies"]
    /\ IF resolved["validate_proxies"] /\ resolved["proxies"] # <<>>
       THEN /\ phase' = "Validating"
            /\ probes' = [i \in DOMAIN resolved["proxies"] |-> NoOutcome]
            /\ UNCHANGED sem
       ELSE /\ phase' = "Dispatching"
            /\ sem' = resolved["threads"]
            /\ UNCHANGED probes
    /\ UNCHANGED <<cli, conf, resolved, created, locked, stats, pc, tries, result, history,
                   recorded, waits, report, proxy>>

\* The probe of candidate i ends with outcome o.
ProbeEnd(i, o) ==
    /\ phase = "Validating"
    /\ i \in DOMAIN probes
    /\ probes[i] = NoOutcome
    /\ probes' = [probes EXCEPT ![i] = o]
    /\ UNCHANGED <<total_requests, concurrency, cli, conf, resolved, proxies, validate_proxies,
                   phase, created, sem, locked, stats, pc, tries, result, history, recorded,
                   waits, report, proxy>>

\* Mutation: an empty valid set ends the run.
FinishValidationAbortOnEmpty ==
    /\ phase = "Validating"
    /\ \A i \in DOMAIN probes : probes[i] # NoOutcome
    /\ proxies' = ValidProxies(proxies, probes)
    /\ probes' = <<>>
    /\ phase' = IF ValidProxies(proxies, probes) = <<>> THEN "Aborted" ELSE "Dispatching"
    /\ sem' = concurrency
    /\ UNCHANGED <<total_requests, concurrency, cli, conf, resolved, validate_proxies,
                   created, locked, stats, pc, tries, result, history, recorded, waits,
                   report, proxy>>

\* Mutation: the wait for the probes ends with the first one that is done.
FinishValidationFirstDone ==
    /\ phase = "Validating"
    /\ \E i \in DOMAIN probes : probes[i] # NoOutcome
    /\ proxies' = ValidProxies(proxies, probes)
    /\ probes' = <<>>
    /\ phase' = "Dispatching"
    /\ sem' = concurrency
    /\ UNCHANGED <<total_requests, concurrency, cli, conf, resolved, validate_proxies,
                   created, locked, stats, pc, tries, result, history, recorded, waits,
                   report, proxy>>

\* validate_proxies_async once gather has every probe's result: the pool
\* becomes the valid candidates; run() goes on to the semaphore and tasks.
FinishValidation ==
    /\ phase = "Validating"
    /\ \A i \in DOMAIN probes : probes[i] # NoOutcome
    /\ proxies' = ValidProxies(proxies, probes)
    /\ probes' = <<>>
    /\ phase' = "Dispatching"
    /\ sem' = concurrency
    /\ UNCHANGED <<total_requests, concurrency, cli, conf, resolved, validate_proxies,
                   created, locked, stats, pc, tries, result, history, recorded, waits,
                   report, proxy>>

\* The command lines main() is run with: the url absent, empty or given,
\* -t and -r given, with or without --proxies and --validate-proxies; the
\* file, if any, gives the url.
MainUrls ==
    {<<NotGiven("url"), NotGiven("url")>>,
     <<Given(""), NotGiven("url")>>,
     <<Given(""), Given("http://from-file")>>,
     <<Given(TargetUrl), NotGiven("url")>>}
MainProxies == {NotGiven("proxies"), Given(<<"p1">>), Given(<<"p1", "p2">>)}
MainLoads ==
    {l \in {<<1, 1>>, <<1, 2>>, <<2, 1>>, <<1, 3>>} :
        l[1] <= MaxConcurrency /\ l[1] * l[2] <= MaxRequests}

InitMain ==
    /\ InitIdle
    /\ \E u \in MainUrls, l \in MainLoads, ps \in MainProxies,
          v \in Settings("validate_proxies", {TRUE}) :
          /\ cli = [PlainCli EXCEPT !["url"] = u[1],
                                    !["threads"] = Given(l[1]),
                                    !["requests"] = Given(l[2]),
                                    !["proxies"] = ps,
                                    !["validate_proxies"] = v]
          /\ conf = [NoFile EXCEPT !["url"] = u[2]]

NextMain ==
    \/ MainResolve
    \/ MainStart
    \/ \E i \in 1..2 : \E o \in ProbeOutcomes : ProbeEnd(i, o)
    \/ FinishValidation
    \/ Next

MainSpec == InitMain /\ [][NextMain]_vars

\* The event loop runs a step whenever one can be taken, and every probe
\* and request ends (each has a timeout).
FairMainSpec == MainSpec /\ WF_vars(NextMain)

\* ------------------------------------------------- vocabulary of the claims
RunTasks == 1..total_requests
RunCompleted == phase \in {"Reporting", "Done"}

\* d.get(k, 0)
Count(d, k) == IF k \in DOMAIN d THEN d[k] ELSE 0

IsSuccess(o) == o.exc = "none"
IsFailure(o) == o.exc \in ExceptionTypes

RECURSIVE SumLen(_, _)
SumLen(f, S) ==
    IF S = {} THEN 0
    ELSE LET x == CHOOSE y \in S : TRUE IN Len(f[x]) + SumLen(f, S \ {x})

\* Number of outcomes o with P(o) forwarded to the aggregator, over all tasks.
ForwardedCount(P(_)) ==
    LET n[S \in SUBSET TaskIds] ==
            IF S = {} THEN 0
            ELSE LET x == CHOOSE y \in S : TRUE
                 IN Cardinality({i \in DOMAIN recorded[x] : P(recorded[x][i])}) + n[S \ {x}]
    IN n[TaskIds]

\* ---------------------------------------------------------------- claims

\* C1: once run() has completed, the sum of all status-code counts plus the
\* sum of all error counts equals total_requests.
C1_OutcomesEqualTotal ==
    RunCompleted => SumValues(status_codes) + SumValues(errors) = total_requests

C1_Witness ==
    /\ phase = "Done"
    /\ total_requests = MaxRequests
    /\ SumValues(status_codes) >= 1
    /\ Count(errors, "Timeout") >= 1
    /\ Count(errors, Str("ClientError")) >= 1

\* C2: the number of tasks admitted by the semaphore that have not finished
\* send_request (waiting for the stats lock included) never exceeds the
\* configured concurrency.
C2_InFlightBounded == Cardinality(InFlight) <= concurrency

C2_Witness ==
    /\ total_requests > concurrency
    /\ Cardinality(InFlight) = concurrency
    /\ concurrency > 1
    /\ \E t \in TaskIds : pc[t] = "sem_wait"
    /\ \E t \in TaskIds : pc[t] = "lock_wait"

\* C3: each sem_task performs exactly one aggregator update over its
\* lifetime: never two at any time, and one once it has finished.
C3_ExactlyOneUpdate ==
    \A t \in TaskIds :
        /\ Len(recorded[t]) <= 1
        /\ pc[t] = "done" => Len(recorded[t]) = 1

C3_Witness ==
    /\ \E t \in TaskIds : pc[t] = "done" /\ Len(recorded[t]) = 1 /\ Outcome(t).exc = "ClientError"
    /\ \E t \in TaskIds : pc[t] = "done" /\ Len(recorded[t]) = 1 /\ Outcome(t).exc = "OtherException"
    /\ \E t \in TaskIds : pc[t] = "done" /\ Len(recorded[t]) = 1 /\ IsSuccess(Outcome(t))

\* C4: at most one task is inside a stats-update critical section at any
\* time, and the histograms and the latency sequence hold exactly the
\* outcomes forwarded so far: none lost, none applied twice.
C4_MutualExclusionExactCounts ==
    /\ Cardinality(InCritical) <= 1
    /\ locked <=> InCritical # {}
    /\ \A c \in StatusCodes :
          Count(status_codes, c) = ForwardedCount(LAMBDA o : IsSuccess(o) /\ o.status = c)
    /\ \A e \in ExceptionTypes :
          Count(errors, ErrorKey(e)) = ForwardedCount(LAMBDA o : o.exc = e)
    /\ \A l \in Latencies :
          Cardinality({i \in DOMAIN latencies : latencies[i] = l})
              = ForwardedCount(LAMBDA o : IsSuccess(o) /\ o.latency = l)
    /\ DOMAIN status_codes \subseteq StatusCodes
    /\ DOMAIN errors \subseteq {ErrorKey(e) : e \in ExceptionTypes}

C4_Witness ==
    /\ \E t \in TaskIds : pc[t] = "critical"
    /\ Cardinality({t \in TaskIds : pc[t] = "lock_wait"}) >= 1
    /\ SumValues(status_codes) + SumValues(errors) >= 1

\* The error kinds of section 4.2: a timeout and a connection-establishment
\* error are terminal; any other transport-level error is retryable.
TerminalErrors == {"TimeoutError", "ClientConnectorError"}
RetryableErrors == {"ClientError"}

IsPrefix(a, b) == Len(a) <= Len(b) /\ \A i \in DOMAIN a : a[i] = b[i]

\* C5: an attempt whose tries fail with a retryable transport error is
\* retried: a Failure for such an error is recorded only after the third
\* try, and a finished attempt all of whose tries failed that way made 3
\* tries with a backoff wait between them and recorded a single Failure,
\* that of the last error.
C5_RetryableErrorRetried ==
    \A t \in TaskIds :
        /\ \A i \in DOMAIN recorded[t] :
              recorded[t][i].exc \in RetryableErrors => tries[t] = MaxTries
        /\ ( /\ pc[t] = "done"
             /\ history[t] # <<>>
             /\ \A i \in DOMAIN history[t] : history[t][i].exc \in RetryableErrors )
           => /\ Len(history[t]) = MaxTries
              /\ Len(waits[t]) = MaxTries - 1
              /\ recorded[t] = <<history[t][MaxTries]>>

\* The transport script of the scenario of C6.
FailTwiceThenRespond(c, l) == <<Raised("ClientError"), Raised("ClientError"), Response(c, l)>>

\* C6: an attempt whose transport fails with a retryable error on the first
\* two tries and responds on the third ends with the transport invoked 3
\* times and exactly one outcome recorded, the Success. Stated of every
\* finished attempt whose transport behaved as that script for as long as
\* it was asked.
C6_FailTwiceThenSuccess ==
    \A t \in TaskIds : \A c \in StatusCodes : \A l \in Latencies :
        ( /\ pc[t] = "done"
          /\ history[t] # <<>>
          /\ IsPrefix(history[t], FailTwiceThenRespond(c, l)) )
        => /\ history[t] = FailTwiceThenRespond(c, l)
           /\ tries[t] = MaxTries
           /\ recorded[t] = <<Response(c, l)>>

\* C7: a timeout or a connection-establishment error is terminal: the
\* attempt makes exactly one transport try, takes no backoff, and goes on
\* to record that one Failure, counted under 'Timeout' for a timeout and
\* under the error's description for a connection error; when every one of
\* N >= 1 attempts timed out the run ends with errors = {Timeout: N}, no
\* status code and no latency.
C7_TimeoutAndConnectionTerminal ==
    /\ \A t \in TaskIds :
          (history[t] # <<>> /\ history[t][1].exc \in TerminalErrors)
          => /\ tries[t] = 1
             /\ Len(history[t]) = 1
             /\ waits[t] = <<>>
             /\ pc[t] \in {"lock_wait", "critical", "done"}
             /\ IsPrefix(recorded[t], history[t])
             /\ pc[t] = "done" => recorded[t] = history[t] /\ result[t] = "returned"
    /\ Count(errors, "Timeout") = ForwardedCount(LAMBDA o : o.exc = "TimeoutError")
    /\ Count(errors, Str("ClientConnectorError"))
          = ForwardedCount(LAMBDA o : o.exc = "ClientConnectorError")
    /\ ( /\ RunCompleted
         /\ total_requests >= 1
         /\ \A t \in RunTasks : history[t] = <<Raised("TimeoutError")>> )
       => /\ DOMAIN errors = {"Timeout"}
          /\ errors["Timeout"] = total_requests
          /\ DOMAIN status_codes = {}
          /\ latencies = <<>>

C7_Witness ==
    /\ phase = "Done"
    /\ total_requests = MaxRequests
    /\ \A t \in RunTasks : history[t] = <<Raised("TimeoutError")>>

\* A second case of C7: a connection error recorded next to a timeout.
C7_WitnessConnector ==
    /\ \E t \in TaskIds : pc[t] = "done" /\ history[t] = <<Raised("ClientConnectorError")>>
    /\ \E t \in TaskIds : pc[t] = "done" /\ history[t] = <<Raised("TimeoutError")>>

\* One step in which a task leaves the critical section with a response.
C8_Step ==
    \A t \in TaskIds :
        (pc[t] = "critical" /\ pc'[t] # "critical" /\ IsSuccess(Outcome(t)))
        => /\ Count(status_codes', Outcome(t).status) = Count(status_codes, Outcome(t).status) + 1
           /\ \A c \in StatusCodes \ {Outcome(t).status} :
                 Count(status_codes', c) = Count(status_codes, c)
           /\ latencies' = Append(latencies, Outcome(t).latency)
           /\ errors' = errors

C8_State ==
    /\ \A t \in TaskIds :
          (history[t] # <<>> /\ IsSuccess(Outcome(t)))
          => /\ pc[t] \in {"lock_wait", "critical", "done"}
             /\ pc[t] = "done" => recorded[t] = <<Outcome(t)>>
    /\ \A t \in TaskIds : \A i \in DOMAIN recorded[t] :
          IsSuccess(recorded[t][i]) => Count(status_codes, recorded[t][i].status) >= 1
    /\ ( /\ RunCompleted
         /\ total_requests >= 1
         /\ \A t \in RunTasks : Len(history[t]) = 1 /\ Outcome(t).exc = "none" /\ Outcome(t).status = 200 )
       => /\ DOMAIN status_codes = {200}
          /\ status_codes[200] = total_requests
          /\ DOMAIN errors = {}

\* C8: any received response, whatever its status code, is recorded as a
\* Success: the count of that exact code goes up by one, one latency is
\* appended and the error histogram is unchanged; when every one of N >= 1
\* attempts returned 200 the run ends with status_codes = {200: N} and
\* errors = {}.
C8_ResponseIsSuccess == [][C8_Step]_vars /\ []C8_State

C8_Witness ==
    /\ phase = "Done"
    /\ total_requests = MaxRequests
    /\ Count(status_codes, 500) >= 1
    /\ Count(status_codes, 200) >= 1
    /\ DOMAIN errors = {}

\* The scenario of C8: every attempt returned 200.
C8_WitnessAll200 ==
    /\ phase = "Done"
    /\ total_requests = MaxRequests
    /\ \A t \in RunTasks : Len(history[t]) = 1 /\ Outcome(t).status = 200

\* C9: no per-attempt error leaves its dispatcher task: a task never
\* finishes with an exception handed to gather, a failed attempt leaves the
\* other tasks free to finish, and the run always goes on from Dispatching
\* to Reporting whatever the attempts ended with.
C9_ErrorsContained ==
    /\ [](\A t \in TaskIds : result[t] # "raised" /\ (pc[t] = "done" <=> result[t] = "returned"))
    /\ (phase = "Dispatching") ~> (phase = "Reporting")

C9_Witness ==
    /\ phase = "Reporting"
    /\ total_requests = MaxRequests
    /\ \A t \in RunTasks : IsFailure(Outcome(t)) /\ result[t] = "returned"
    /\ \E t \in RunTasks : Outcome(t).exc = "OtherException"
    /\ \E t \in RunTasks : Outcome(t).exc = "ClientError"

\* C10: under fair scheduling, with every transport try ending, the run
\* reaches Done with every one of the total_requests tasks finished: no
\* task is left waiting on the semaphore, on the transport or on the stats
\* lock.
C10_RunTerminates ==
    <>(phase = "Done" /\ \A t \in RunTasks : pc[t] = "done" /\ result[t] # "pending")

C10_Witness ==
    /\ phase = "Done"
    /\ total_requests = MaxRequests
    /\ concurrency < total_requests
    /\ \A t \in RunTasks : pc[t] = "done"
    /\ Len(latencies) = 1

\* C11: the report and the percentiles read the statistics only after every
\* dispatcher task has completed: while the run is in Reporting or Done
\* every task has been created and has finished, none is in flight or
\* waiting for admission, and no step changes the statistics any more.
C11_ReportAfterAllTasks ==
    /\ [](RunCompleted =>
            /\ created = total_requests
            /\ \A t \in RunTasks : pc[t] = "done"
            /\ InFlight = {}
            /\ \A t \in TaskIds : pc[t] # "sem_wait"
            /\ ~locked)
    /\ [][RunCompleted => (stats' = stats /\ recorded' = recorded)]_vars

C11_Witness ==
    /\ phase = "Reporting"
    /\ total_requests = MaxRequests
    /\ Len(latencies) >= 2
    /\ SumValues(errors) >= 1

\* C19 as stated: an attempt all of whose tries fail with a retryable
\* error uses up the retry ceiling, ends with the exception handed to
\* gather and records nothing, so a completed run with such an attempt has
\* fewer recorded outcomes than total_requests.
C19_ExceptionDropped ==
    /\ \A t \in TaskIds :
          ( /\ pc[t] = "done"
            /\ history[t] # <<>>
            /\ \A i \in DOMAIN history[t] : history[t][i].exc \in RetryableErrors )
          => /\ tries[t] = MaxTries
             /\ result[t] = "raised"
             /\ recorded[t] = <<>>
    /\ ( /\ RunCompleted
         /\ \E t \in RunTasks : history[t][1].exc \in RetryableErrors )
       => SumValues(status_codes) + SumValues(errors) < total_requests

\* C19 amended: a retryable transport error is caught inside send_request
\* on the first try: the attempt makes that one try, is not retried,
\* records one Failure under the error's description and returns normally,
\* nothing is handed to gather, and a completed run with such attempts has
\* exactly total_requests recorded outcomes.
C19_RetryableErrorRecordedAtOnce ==
    /\ \A t \in TaskIds :
          (history[t] # <<>> /\ history[t][1].exc \in RetryableErrors)
          => /\ tries[t] = 1
             /\ Len(history[t]) = 1
             /\ waits[t] = <<>>
             /\ result[t] # "raised"
             /\ pc[t] = "done" => recorded[t] = history[t] /\ result[t] = "returned"
    /\ \A e \in RetryableErrors :
          Count(errors, Str(e)) = ForwardedCount(LAMBDA o : o.exc = e)
    /\ ( /\ RunCompleted
         /\ \E t \in RunTasks : history[t][1].exc \in RetryableErrors )
       => SumValues(status_codes) + SumValues(errors) = total_requests

C19_Witness ==
    /\ phase = "Done"
    /\ total_requests = MaxRequests
    /\ \A t \in RunTasks : history[t] = <<Raised("ClientError")>>
    /\ Count(errors, Str("ClientError")) = MaxRequests

\* C20: in every reachable state the latency sequence is as long as the sum
\* of the status-code counts; a step that counts an error leaves the
\* latencies and the status codes alone and a step that appends a latency
\* counts one status code; and the report's failed = total_requests -
\* successful equals the sum of the error counts.
C20_SuccessStructuresInStep ==
    /\ [](Len(latencies) = SumValues(status_codes))
    /\ [][ /\ errors' # errors => (latencies' = latencies /\ status_codes' = status_codes)
           /\ latencies' # latencies =>
                 /\ Len(latencies') = Len(latencies) + 1
                 /\ SumValues(status_codes') = SumValues(status_codes) + 1
                 /\ errors' = errors ]_vars
    /\ [](phase = "Done" =>
            /\ report.successful = Len(latencies)
            /\ report.failed = SumValues(errors))

C20_Witness ==
    /\ phase = "Done"
    /\ total_requests = MaxRequests
    /\ report.failed >= 1
    /\ report.successful >= 2

\* v is the element at 0-based index k of lat sorted ascending.
IsAtSortedIndex(lat, k, v) ==
    /\ \E i \in DOMAIN lat : lat[i] = v
    /\ Cardinality({i \in DOMAIN lat : lat[i] < v}) <= k
    /\ Cardinality({i \in DOMAIN lat : lat[i] <= v}) > k

\* k = min(floor(n * p / 100), n - 1), for n >= 1.
IsClampedRank(n, p, k) ==
    /\ k \in 0..(n - 1)
    /\ 100 * k <= n * p
    /\ k = n - 1 \/ n * p < 100 * (k + 1)

\* C15: for a non-empty latency list of length count and a percentile p of
\* 0..100, _percentile(p) is the element at index
\* min(floor(count * p / 100), count - 1) of the latencies sorted
\* ascending; for an empty list it is 0; and the call leaves the recorded
\* latency list as it was.
C15_PercentileNearestRank ==
    /\ [](\A p \in DOMAIN report.percentiles :
            IF latencies = <<>>
            THEN report.percentiles[p] = 0
            ELSE \E k \in 0..(Len(latencies) - 1) :
                    /\ IsClampedRank(Len(latencies), p, k)
                    /\ IsAtSortedIndex(latencies, k, report.percentiles[p]))
    /\ [][latencies' = latencies]_vars

C15_Witness ==
    /\ Len(latencies) = MaxLatencies
    /\ latencies[1] > latencies[2]
    /\ latencies[MaxLatencies] < latencies[1]
    /\ DOMAIN report.percentiles = {100}
    /\ report.percentiles[100] = 3

\* A second case of C15: a rank strictly inside the list.
C15_WitnessInner ==
    /\ latencies = <<3, 1, 2>>
    /\ DOMAIN report.percentiles = {50}
    /\ report.percentiles[50] = 2

\* C16: for a non-empty latency list p50 <= p90 <= p99 and each lies
\* between the smallest and the largest latency; for an empty list all
\* three are 0.
C16_PercentilesMonotonic ==
    LET p50 == Percentile(latencies, 50)
        p90 == Percentile(latencies, 90)
        p99 == Percentile(latencies, 99)
    IN IF latencies = <<>>
       THEN p50 = 0 /\ p90 = 0 /\ p99 = 0
       ELSE /\ p50 <= p90
            /\ p90 <= p99
            /\ \A q \in {p50, p90, p99} :
                  /\ \E i \in DOMAIN latencies : latencies[i] <= q
                  /\ \E i \in DOMAIN latencies : latencies[i] >= q
                  /\ \E i \in DOMAIN latencies : latencies[i] = q

C16_Witness ==
    /\ Len(latencies) = MaxLatencies
    /\ latencies[1] = 3
    /\ latencies[MaxLatencies] = 1
    /\ Percentile(latencies, 50) < Percentile(latencies, 90)
    /\ DOMAIN report.percentiles = {99}
    /\ report.percentiles[99] = 3

\* The keys C18 lists.
OptionKeys == ConfigKeys \ {"url"}

\* The built-in default of each key, as the help of parse_args gives it.
BuiltinDefault(k) ==
    CASE k = "threads" -> 100
      [] k = "requests" -> 1000
      [] k = "timeout" -> 5
      [] k = "method" -> "GET"
      [] k = "data" -> ""
      [] k = "proxies" -> <<>>
      [] k = "log_file" -> "stress_test.log"
      [] OTHER -> FALSE

\* C18: for each key the resolved value is the command-line value when the
\* flag is given on the command line, otherwise the value of the JSON file
\* when the file provides one, otherwise the built-in default.
C18_CliThenFileThenDefault ==
    resolved # <<>> =>
        \A k \in OptionKeys :
            resolved[k] =
                IF cli[k].given THEN (IF k = "validate_proxies" THEN TRUE ELSE cli[k].value)
                ELSE IF conf[k].given THEN conf[k].value
                ELSE BuiltinDefault(k)

\* --------------------------------------------------------------- C17
\* No target url: absent or empty on the command line, and not in the file.
NoUrl == (~cli["url"].given \/ cli["url"].value = "") /\ ~conf["url"].given

\* Nothing of a run has happened.
Untouched ==
    /\ probes = <<>>
    /\ created = 0
    /\ \A t \in TaskIds : pc[t] = "none" /\ history[t] = <<>> /\ recorded[t] = <<>>
    /\ status_codes = <<>> /\ errors = <<>> /\ latencies = <<>>
    /\ report = NoReport

\* Without a url the step from Idle goes to Aborted; nothing follows Aborted.
C17_Step ==
    /\ NoUrl /\ phase = "Idle" => phase' = "Aborted"
    /\ phase = "Aborted" => UNCHANGED vars

\* C17: when configuration resolution yields no target url, the only step
\* of the run is Idle -> Aborted: the run is never in another phase, no
\* probe is issued, no task is created, no request is sent, no report is
\* produced, and nothing happens after Aborted.
C17_NoUrlAborts ==
    /\ [](NoUrl => phase \in {"Idle", "Aborted"} /\ Untouched)
    /\ [][C17_Step]_vars

C17_Witness ==
    /\ phase = "Aborted"
    /\ cli["url"].given
    /\ cli["url"].value = ""
    /\ resolved # <<>>
    /\ Len(cli["proxies"].value) = 2
    /\ cli["validate_proxies"].given

C17_WitnessAbsent == phase = "Aborted" /\ ~cli["url"].given /\ resolved = <<>>

\* --------------------------------------------------------------- C12
PoolFixedPhases == {"Dispatching", "Reporting", "Done"}
ValidationRequested == resolved["validate_proxies"] /\ resolved["proxies"] # <<>>
ProbeReturned200(i) == probes[i].exc = "none" /\ probes[i].status = 200

\* The step that ends validation: every probe has finished, the new pool is
\* made of the candidates whose probe returned 200, and no task exists yet.
C12_LeaveValidating ==
    phase = "Validating" /\ phase' # "Validating" =>
        /\ \A i \in DOMAIN probes : probes[i] # NoOutcome
        /\ {proxies'[j] : j \in DOMAIN proxies'}
              = {proxies[i] : i \in {h \in DOMAIN probes : ProbeReturned200(h)}}
        /\ created' = 0

\* From Dispatching on the pool is left alone.
C12_PoolFixed == (phase \in PoolFixedPhases) => proxies' = proxies

\* C12: with validation requested the run goes through Validating; it
\* leaves Validating only when every probe has finished, and with the pool
\* made of the candidates whose probe returned 200; no task exists before
\* Dispatching; from Dispatching on the pool never changes.
C12_ValidationBeforeDispatch ==
    /\ [](phase \in {"Idle", "Validating", "Aborted"} =>
            created = 0 /\ \A t \in TaskIds : pc[t] = "none")
    /\ [](created > 0 => probes = <<>>)
    /\ [][phase = "Idle" /\ phase' = "Dispatching" => ~ValidationRequested]_vars
    /\ [][C12_LeaveValidating]_vars
    /\ [][C12_PoolFixed]_vars

C12_Witness ==
    /\ phase = "Done"
    /\ validate_proxies
    /\ resolved["proxies"] = <<"p1", "p2">>
    /\ proxies = <<"p1">>
    /\ total_requests = 2
    /\ created = 2

\* --------------------------------------------------------------- C13
\* The candidates whose probe returned 200, by index.
Good == {i \in DOMAIN probes : probes[i] = Response(200, 0)}

\* The pool validation leaves behind: the k-th member is the k-th candidate
\* whose probe returned 200.
C13_LeaveValidating ==
    phase = "Validating" /\ phase' # "Validating" =>
        /\ Len(proxies') = Cardinality(Good)
        /\ \A j \in DOMAIN proxies' :
              \E i \in Good :
                  /\ proxies'[j] = proxies[i]
                  /\ Cardinality({h \in Good : h < i}) = j - 1

\* A finished probe is not run again.
C13_ProbedOnce ==
    phase = "Validating" /\ phase' = "Validating" =>
        \A i \in DOMAIN probes : probes[i] # NoOutcome => probes'[i] = probes[i]

\* C13: while validating there is one probe per candidate and a finished
\* probe is not run again; the pool validation leaves behind holds, in
\* candidate order, exactly the candidates whose probe returned 200 (a
\* non-200 status, a timeout and a connection error exclude the candidate),
\* whatever the order in which the probes finished.
C13_ValidSubsetInOrder ==
    /\ [](phase = "Validating" =>
            proxies = resolved["proxies"] /\ DOMAIN probes = DOMAIN proxies)
    /\ [][C13_ProbedOnce]_vars
    /\ [][C13_LeaveValidating]_vars

\* [P_bad, P_ok]: the first probe got a non-200 status, the second 200.
C13_Witness ==
    /\ phase = "Dispatching"
    /\ created = 0
    /\ validate_proxies
    /\ resolved["proxies"] = <<"p1", "p2">>
    /\ proxies = <<"p2">>

\* The second probe finished before the first.
C13_WitnessOutOfOrder ==
    /\ phase = "Validating"
    /\ Len(probes) = 2
    /\ probes[1] = NoOutcome
    /\ probes[2] = Raised("TimeoutError")

\* --------------------------------------------------------------- C14
\* Validation ran and left no proxy.
NoValidProxy ==
    /\ phase \notin {"Idle", "Validating"}
    /\ validate_proxies
    /\ resolved["proxies"] # <<>>
    /\ proxies = <<>>

\* Every probe has finished and none returned 200.
AllProbesInvalid ==
    /\ phase = "Validating"
    /\ \A i \in DOMAIN probes : probes[i] # NoOutcome /\ ~ProbeReturned200(i)

AllDispatchedOneOutcomeEach ==
    /\ created = total_requests
    /\ \A t \in RunTasks : pc[t] = "done" /\ Len(recorded[t]) = 1
    /\ SumValues(status_codes) + SumValues(errors) = total_requests

\* With no valid candidate, validation ends in Dispatching, the pool empty.
C14_LeaveValidating ==
    AllProbesInvalid /\ phase' # "Validating" =>
        phase' = "Dispatching" /\ proxies' = <<>>

\* C14: when validation finds no valid proxy the run goes on to
\* Dispatching instead of stopping; every try is made with no proxy, a
\* finished attempt has recorded exactly one outcome, and the run reaches
\* Done with all total_requests attempts dispatched and recorded.
C14_EmptyPoolRunProceeds ==
    /\ [](NoValidProxy =>
            /\ phase \in PoolFixedPhases
            /\ \A t \in TaskIds :
                  /\ proxy[t] \in {NoProxyChosen, NoProxy}
                  /\ pc[t] = "done" => Len(recorded[t]) = 1
            /\ RunCompleted => AllDispatchedOneOutcomeEach)
    /\ [][C14_LeaveValidating]_vars
    /\ (AllProbesInvalid ~> (phase = "Done" /\ NoValidProxy /\ AllDispatchedOneOutcomeEach))

C14_Witness ==
    /\ phase = "Done"
    /\ NoValidProxy
    /\ Len(resolved["proxies"]) = 2
    /\ total_requests = 2
    /\ AllDispatchedOneOutcomeEach
    /\ Len(latencies) = 1

====
